---- MODULE Spec2Model ----
(***************************************************************************)
(* Model of saida_grade.py: the incremental "saidas por grade" report.     *)
(* One run of main() reads KARDEX, classifies and groups the movements,    *)
(* enriches them with PRODUTOS, upserts them into SAIDA_GRADE.csv and      *)
(* records the run in .saida_grade_last_run.json.                          *)
(*                                                                         *)
(* Values of a DataFrame cell are strings; NULL stands for None/NaN.       *)
(* A DataFrame is [none, rows]: none = TRUE is Python's None, rows is the  *)
(* sequence of its rows in index order.                                    *)
(***************************************************************************)
EXTENDS Integers, Sequences, FiniteSets, TLC

VARIABLES
    kardex,        \* the KARDEX table of the database, in insertion order
    refdb,         \* the PRODUTOS, GRUPOS, MARCAS and PRODUTOS_SUB_GRUPO tables
    now,           \* datetime.now(), in hours
    csv,           \* the file output/SAIDA_GRADE.csv
    last_run_file, \* the file output/.saida_grade_last_run.json
    cache,         \* the files output/.cache_<table>.json
    pc,            \* position of the run of main()
    exit_code,     \* exit status of the run that ended (NONE while none has)
    message,       \* the last thing the run printed
    args,          \* parse_args() of the run
    inicio,        \* main: inicio
    is_incremental,\* main: is_incremental
    use_cache,     \* main: use_cache
    data_corte,    \* main: data_corte
    query,         \* main: query
    df_existing,   \* merge_dataframes: first argument (load_existing_data())
    df_new,        \* merge_dataframes: second argument (this run's lines)
    df_final,      \* merge_dataframes: returned frame / frame main() saves
    written,       \* rows of df_final that to_csv has written so far
    csv0,          \* content of SAIDA_GRADE.csv when the run started
    last_run0,     \* content of the run-state file when the run started
    runs,          \* number of runs started
    df_again,      \* a second merge of df_new into df_final
    mpc,           \* position of the merge harness
    df_kardex,     \* main: df_kardex as ler_tabela returned it
    refs,          \* main, step 4: how the run got its reference tables
    reader,        \* the table read under way: ler_tabela or exec_sql
    cs_fail,       \* the charsets with which the connection or the read fails
    tried,         \* the charsets the read has tried, in order
    read_result,   \* what the read returned or raised
    rpc,           \* position of the table read
    fact_file,     \* build_period_report: a fato_*.csv file append_dedup writes
    supplied,      \* the rows given to append_dedup so far, in call order
    dpc,           \* position of the append_dedup harness
    batch,         \* an extracted batch given to steps 1-4 on their own
    prepared,      \* the batch after the COD_GRADE and HISTORICO treatment
    vendas,        \* main: df_vendas of the batch
    devolucoes,    \* main: df_devolucoes of the batch
    consolidado,   \* main: df_consolidado of the batch, before enrichment
    linhas,        \* main: df_consolidado of the batch, after enrichment
    ref_loaded,    \* main: df_produtos, df_grupos, df_marcas, df_subgrupo
    ppc            \* position of the batch in steps 1-4

dbvars == <<kardex, refdb, now>>

filevars == <<csv, last_run_file, cache>>

runvars ==
    <<pc, exit_code, message, args, inicio, is_incremental, use_cache, data_corte, query,
      written, csv0, last_run0, runs>>

dfvars == <<df_existing, df_new, df_final, df_kardex, refs>>

mvars == <<df_again, mpc>>

pvars == <<batch, prepared, vendas, devolucoes, consolidado, linhas, ref_loaded, ppc>>

hvars == <<reader, cs_fail, tried, read_result, rpc, fact_file, supplied, dpc>>

vars == <<dbvars, filevars, runvars, dfvars, mvars, pvars, hvars>>

----------------------------------------------------------------------------
(* Cell values *)

\* None / NaN of a cell
NULL == "<NULL>"

\* Series.astype(str): None/NaN become the text 'nan', a string is itself
astype_str(v) == IF v = NULL THEN "nan" ELSE v

Range(s) == {s[i] : i \in DOMAIN s}

\* number of rows of s equal to r
Count(s, r) == Cardinality({i \in DOMAIN s : s[i] = r})

\* the two sequences hold the same rows the same number of times
SameRows(s, t) == \A r \in Range(s) \cup Range(t) : Count(s, r) = Count(t, r)

NoneDF == [none |-> TRUE, rows |-> <<>>]

DF(rows) == [none |-> FALSE, rows |-> rows]

\* len(df) for a frame that is not None
len(df) == Len(df.rows)

----------------------------------------------------------------------------
(* merge_dataframes *)

\* key_cols of merge_dataframes, as a tuple of cell values
key_cols(r) == <<r.COD_GRADE, r.DATA_MOVIMENTO, r.NOME_USUARIO, r.TIPO_MOV>>

\* df[key_cols].astype(str).agg('|'.join, axis=1): the '_key' column
row_key(r) ==
    astype_str(r.COD_GRADE) \o "|" \o astype_str(r.DATA_MOVIMENTO) \o "|"
        \o astype_str(r.NOME_USUARIO) \o "|" \o astype_str(r.TIPO_MOV)

\* set(df_new['_key'])
keys_to_update(new) == {row_key(r) : r \in Range(new.rows)}

\* df_existing[~df_existing['_key'].isin(keys_to_update)]
df_keep(existing, new) ==
    SelectSeq(existing.rows, LAMBDA r : row_key(r) \notin keys_to_update(new))

\* a merge that answers df_new whenever either frame is empty or None
merge_dataframes_new_wins(existing, new) ==
    IF existing.none \/ len(existing) = 0 \/ new.none \/ len(new) = 0 THEN new
    ELSE DF(df_keep(existing, new) \o new.rows)

\* lines 170-221: merge_dataframes
merge_dataframes(existing, new) ==
    IF existing.none \/ len(existing) = 0 THEN new
    ELSE IF new.none \/ len(new) = 0 THEN existing
    ELSE DF(df_keep(existing, new) \o new.rows)

----------------------------------------------------------------------------
(* Text *)

\* The strings of the model are ASCII. In a note the letters C-cedilla and
\* A-tilde are written ^C and ~A (^c and ~a in lower case), so the marker of a
\* return, 'DEVOLUÇÃO', is "DEVOLU^C~AO" and differs from "DEVOLUCAO"; the
\* printed messages are written without their accents.

\* sub in s
Contains(s, sub) ==
    \E i \in 1..(Len(s) - Len(sub) + 1) : SubSeq(s, i, i + Len(sub) - 1) = sub

\* str.strip(), for the blanks the model's values hold
RECURSIVE strip(_)
strip(s) ==
    IF Len(s) = 0 THEN s
    ELSE IF SubSeq(s, 1, 1) = " " THEN strip(SubSeq(s, 2, Len(s)))
    ELSE IF SubSeq(s, Len(s), Len(s)) = " " THEN strip(SubSeq(s, 1, Len(s) - 1))
    ELSE s

\* The characters of the model's values, in code point order
CodePoints ==
    " 0123456789ABCDEFGHIJKLMNOPQRSTUVWXYZ_abcdefghijklmnopqrstuvwxyz|"

Ord(c) == CHOOSE i \in 1..Len(CodePoints) : SubSeq(CodePoints, i, i) = c

\* a < b for Python strings
RECURSIVE StrLess(_, _)
StrLess(a, b) ==
    IF Len(b) = 0 THEN FALSE
    ELSE IF Len(a) = 0 THEN TRUE
    ELSE LET ca == Ord(SubSeq(a, 1, 1))
             cb == Ord(SubSeq(b, 1, 1))
         IN  IF ca # cb THEN ca < cb
             ELSE StrLess(SubSeq(a, 2, Len(a)), SubSeq(b, 2, Len(b)))

\* a < b for tuples of strings of the same length
RECURSIVE TupleLess(_, _)
TupleLess(a, b) ==
    IF Len(a) = 0 THEN FALSE
    ELSE IF a[1] # b[1] THEN StrLess(a[1], b[1])
    ELSE TupleLess(Tail(a), Tail(b))

\* the tuples of S in ascending order
RECURSIVE Sorted(_)
Sorted(S) ==
    IF S = {} THEN <<>>
    ELSE LET m == CHOOSE x \in S : \A y \in S \ {x} : TupleLess(x, y)
         IN  <<m>> \o Sorted(S \ {m})

RECURSIVE Flatten(_)
Flatten(ss) == IF Len(ss) = 0 THEN <<>> ELSE Head(ss) \o Flatten(Tail(ss))

RECURSIVE SumSeq(_)
SumSeq(s) == IF Len(s) = 0 THEN 0 ELSE Head(s) + SumSeq(Tail(s))

----------------------------------------------------------------------------
(* Time.  An instant is a number of hours; hour 24*d + h is day d of the    *)
(* month at h o'clock.                                                      *)

HoursPerDay == 24

SAFETY_WINDOW_HOURS == 2

\* Python's None where the value is otherwise a number (data_corte, args.days,
\* a condition left out of the query), and NaN in a numeric column
NONE == -1000

\* datetime.date(): the day of an instant
Day(t) == t \div HoursPerDay

\* date.strftime('%Y-%m-%d') / str(date): the text of a date, written here as
\* its two-digit day of the month (year and month do not change in the model)
DateStr(d) == IF d < 10 THEN "0" \o ToString(d) ELSE ToString(d)

\* datetime.isoformat(): date and time of day as written to the run state
isoformat(t) == <<DateStr(Day(t)), t % HoursPerDay>>

\* datetime.fromisoformat()
fromisoformat(ts) ==
    LET d == CHOOSE d \in 0..31 : DateStr(d) = ts[1] IN d * HoursPerDay + ts[2]

----------------------------------------------------------------------------
(* 1. KARDEX *)

\* build_kardex_query: the WHERE conditions on DATA_MOVIMENTO
build_kardex_query(corte, dias, t) ==
    [corte  |-> IF corte # NONE THEN Day(corte) ELSE NONE,
     inicio |-> IF dias # NONE /\ dias # 0 THEN Day(t - dias * HoursPerDay) ELSE NONE]

\* a query that answers the most recent of the rows it selects, and no other
Selected_latest(q, table) ==
    LET sel == SelectSeq(table, LAMBDA m :
                   /\ q.corte # NONE => m.DATA_MOVIMENTO >= q.corte
                   /\ q.inicio # NONE => m.DATA_MOVIMENTO >= q.inicio)
    IN  IF Len(sel) = 0 THEN sel ELSE <<sel[Len(sel)]>>

\* the rows of KARDEX the query selects
Selected(q, table) ==
    SelectSeq(table, LAMBDA m :
        /\ q.corte # NONE => m.DATA_MOVIMENTO >= q.corte
        /\ q.inicio # NONE => m.DATA_MOVIMENTO >= q.inicio)

\* pd.read_sql of the KARDEX query: a DATE becomes a datetime.date, written
\* here as its text
ReadKardex(q, table) ==
    LET sel == Selected(q, table)
    IN  [i \in DOMAIN sel |->
            [sel[i] EXCEPT !.DATA_MOVIMENTO = DateStr(sel[i].DATA_MOVIMENTO)]]

\* f"{v}": the text of a value; None is written 'None'
format(v) == IF v = NULL THEN "None" ELSE v

\* a grade treatment that does not strip the code
NormalizeGrade_unstripped(row) ==
    IF row.COD_GRADE # NULL /\ row.COD_GRADE # ""
    THEN row
    ELSE [row EXCEPT !.COD_GRADE = format(row.CODIGO_PRODUTO) \o "_UNICO"]

\* lines 273-277: an absent or blank COD_GRADE becomes <CODIGO_PRODUTO>_UNICO
\* (pd.read_sql gives None for a NULL of a text column; None and '' are false)
NormalizeGrade(row) ==
    IF row.COD_GRADE # NULL /\ row.COD_GRADE # "" /\ strip(row.COD_GRADE) # ""
    THEN row
    ELSE [row EXCEPT !.COD_GRADE = format(row.CODIGO_PRODUTO) \o "_UNICO"]

LowerCase == "abcdefghijklmnopqrstuvwxyz"

UpperCase == "ABCDEFGHIJKLMNOPQRSTUVWXYZ"

\* the upper-case letter of every lower-case letter
UpperTable ==
    [c \in {SubSeq(LowerCase, i, i) : i \in 1..Len(LowerCase)} |->
        LET i == CHOOSE i \in 1..Len(LowerCase) : SubSeq(LowerCase, i, i) = c
        IN  SubSeq(UpperCase, i, i)]

UpperChar(c) == IF c \in DOMAIN UpperTable THEN UpperTable[c] ELSE c

\* str.upper()
RECURSIVE upper(_)
upper(s) ==
    IF Len(s) = 0 THEN s ELSE UpperChar(SubSeq(s, 1, 1)) \o upper(SubSeq(s, 2, Len(s)))

\* df_kardex after the COD_GRADE fix and HISTORICO.astype(str).str.upper()
Prepared(df) ==
    [i \in DOMAIN df |->
        [NormalizeGrade(df[i]) EXCEPT !.HISTORICO = upper(astype_str(df[i].HISTORICO))]]

----------------------------------------------------------------------------
(* 2. Sales and returns *)

\* NUMERO_PEDIDO of the rows whose HISTORICO contains 'CANC'
pedidos_cancelados(df) ==
    {df[i].NUMERO_PEDIDO : i \in {j \in DOMAIN df : Contains(df[j].HISTORICO, "CANC")}}

\* a sale mask that does not look at the cancelled orders
IsVenda_any_order(r, df) ==
    \/ Contains(r.HISTORICO, "VENDA PDV")
    \/ /\ Contains(r.HISTORICO, "RETIRADA")
       /\ ~Contains(r.HISTORICO, "CANC")

\* lines 300-309: the mask of df_vendas
IsVenda(r, df) ==
    \/ Contains(r.HISTORICO, "VENDA PDV")
    \/ /\ Contains(r.HISTORICO, "RETIRADA")
       /\ ~Contains(r.HISTORICO, "CANC")
       /\ r.NUMERO_PEDIDO \notin pedidos_cancelados(df)

IsDevolucao(r, df) ==
    /\ Contains(r.HISTORICO, "DEVOLU^C~AO")
    /\ ~Contains(r.HISTORICO, "CANC")
    /\ r.NUMERO_PEDIDO \notin pedidos_cancelados(df)

\* a row of df_kardex with the columns TIPO_MOV and QTD_MOV added
Classified(r, tipo, qtd) ==
    [COD_GRADE |-> r.COD_GRADE, DATA_MOVIMENTO |-> r.DATA_MOVIMENTO,
     NOME_USUARIO |-> r.NOME_USUARIO, TIPO_MOV |-> tipo,
     CODIGO_PRODUTO |-> r.CODIGO_PRODUTO, QTD_MOV |-> qtd,
     HISTORICO |-> r.HISTORICO, NUMERO_PEDIDO |-> r.NUMERO_PEDIDO,
     QTDE_SAIDA |-> r.QTDE_SAIDA, QTDE_ENTRADA |-> r.QTDE_ENTRADA]

df_vendas(df) ==
    LET sel == SelectSeq(df, LAMBDA r : IsVenda(r, df))
    IN  [i \in DOMAIN sel |-> Classified(sel[i], "VENDA", sel[i].QTDE_SAIDA)]

\* returns that move their outgoing quantity
df_devolucoes_saida(df) ==
    LET sel == SelectSeq(df, LAMBDA r : IsDevolucao(r, df))
    IN  [i \in DOMAIN sel |-> Classified(sel[i], "DEVOLUCAO", sel[i].QTDE_SAIDA)]

\* lines 316-322: df_devolucoes
df_devolucoes(df) ==
    LET sel == SelectSeq(df, LAMBDA r : IsDevolucao(r, df))
    IN  [i \in DOMAIN sel |-> Classified(sel[i], "DEVOLUCAO", sel[i].QTDE_ENTRADA)]

\* pd.concat([df_vendas, df_devolucoes])
df_saidas(df) == df_vendas(df) \o df_devolucoes(df)

----------------------------------------------------------------------------
(* 3. Grouping *)

\* GroupBy.first: the first value of the group that is not null
First(s) ==
    LET nn == SelectSeq(s, LAMBDA v : v # NULL)
    IN  IF Len(nn) = 0 THEN NULL ELSE Head(nn)

\* groupby(key_cols).agg(...).reset_index(): one line per key, in key order;
\* a row with a null key column belongs to no group
df_consolidado(saidas) ==
    LET keyed == SelectSeq(saidas, LAMBDA r : \A i \in 1..4 : key_cols(r)[i] # NULL)
        ks    == Sorted({key_cols(r) : r \in Range(keyed)})
    IN  [i \in DOMAIN ks |->
            LET grp == SelectSeq(keyed, LAMBDA r : key_cols(r) = ks[i])
            IN  [COD_GRADE |-> ks[i][1], DATA_MOVIMENTO |-> ks[i][2],
                 NOME_USUARIO |-> ks[i][3], TIPO_MOV |-> ks[i][4],
                 CODIGO_PRODUTO |-> First([j \in DOMAIN grp |-> grp[j].CODIGO_PRODUTO]),
                 QTD_SAIDA |-> SumSeq([j \in DOMAIN grp |-> grp[j].QTD_MOV])]]

----------------------------------------------------------------------------
(* 4. Reference tables, their caches, enrichment *)

RefTables == {"PRODUTOS", "GRUPOS", "MARCAS", "SUBGRUPO"}

\* a read that answers an empty table when no charset connects
ler_tabela_swallows(ok, rows) == IF ok THEN DF(rows) ELSE DF(<<>>)

\* ler_tabela: the table read, or an exception when no charset connects
ler_tabela(ok, rows) == IF ok THEN DF(rows) ELSE NoneDF

\* load_cache: the cached frame, or None when the file is missing or unreadable
load_cache(file, readable) == IF ~file.none /\ readable THEN file ELSE NoneDF

\* lines 369-408: each table from its cache when use_cache, else from the source
LoadedRef(usecache, readable, avail, t) ==
    LET cached == IF usecache THEN load_cache(cache[t], readable) ELSE NoneDF
    IN  IF ~cached.none THEN cached ELSE ler_tabela(t \in avail, refdb[t])

\* lines 377, 387, 394, 401: the source is asked for a table that is still None
Queried(usecache, readable, t) ==
    LET cached == IF usecache THEN load_cache(cache[t], readable) ELSE NoneDF
    IN  cached.none

\* a run that leaves the cache files as they are
CacheAfter_stale(usecache, readable, avail, t) == cache[t]

\* save_cache after each table read from the source
CacheAfter(usecache, readable, avail, t) ==
    LET cached == IF usecache THEN load_cache(cache[t], readable) ELSE NoneDF
    IN  IF cached.none /\ t \in avail THEN DF(refdb[t]) ELSE cache[t]

\* before step 4: no cache read has failed, nothing was asked, nothing loaded
NoRefs ==
    [cache_ok |-> TRUE, queried |-> {}, loaded |-> [t \in RefTables |-> NoneDF]]

\* a merge that keeps matching rows only (how='inner')
LeftJoin_inner(L, R, left_on, right_on) ==
    Flatten([i \in DOMAIN L |->
        LET ms == SelectSeq(R, LAMBDA r :
                      astype_str(L[i][left_on]) = astype_str(r[right_on]))
        IN  [j \in DOMAIN ms |->
                [left |-> L[i], matched |-> TRUE, right |-> ms[j]]]])

\* DataFrame.merge(how='left'): every left row, once per matching right row
\* and once with nulls when none matches, in left order
LeftJoin(L, R, left_on, right_on) ==
    Flatten([i \in DOMAIN L |->
        LET ms == SelectSeq(R, LAMBDA r :
                      astype_str(L[i][left_on]) = astype_str(r[right_on]))
        IN  IF Len(ms) = 0 THEN <<[left |-> L[i], matched |-> FALSE]>>
            ELSE [j \in DOMAIN ms |->
                    [left |-> L[i], matched |-> TRUE, right |-> ms[j]]]])

\* df_produtos.merge(lookup, left_on=col, right_on='CODIGO', how='left')
WithLookup(prods, lookup, col, name) ==
    IF lookup.none THEN prods
    ELSE LET joined == LeftJoin(prods, lookup.rows, col, "CODIGO")
         IN  [i \in DOMAIN joined |->
                IF joined[i].matched
                THEN [joined[i].left EXCEPT ![name] = joined[i].right.NOME]
                ELSE joined[i].left]

\* PRODUTOS joined to GRUPOS, MARCAS and PRODUTOS_SUB_GRUPO
ProdutosJoined(ref) ==
    LET p0 == [i \in DOMAIN ref["PRODUTOS"].rows |->
                  [REFERENCIA |-> ref["PRODUTOS"].rows[i].REFERENCIA,
                   PRECO_CUST |-> ref["PRODUTOS"].rows[i].PRECO_CUST,
                   PRECO_VEND |-> ref["PRODUTOS"].rows[i].PRECO_VEND,
                   GRUPO |-> ref["PRODUTOS"].rows[i].GRUPO,
                   MARCA |-> ref["PRODUTOS"].rows[i].MARCA,
                   SUB_GRUPO |-> ref["PRODUTOS"].rows[i].SUB_GRUPO,
                   NOME_GRUPO |-> NULL, NOME_MARCA |-> NULL, SUBGRUPO_DESC |-> NULL]]
        p1 == WithLookup(p0, ref["GRUPOS"], "GRUPO", "NOME_GRUPO")
        p2 == WithLookup(p1, ref["MARCAS"], "MARCA", "NOME_MARCA")
    IN  WithLookup(p2, ref["SUBGRUPO"], "SUB_GRUPO", "SUBGRUPO_DESC")

\* (n / d).round(2) for n >= 0 and d > 0, in hundredths: the nearest
\* hundredth, the even one when two are as near
Round2(n, d) ==
    LET q == (100 * n) \div d
        r == (100 * n) % d
    IN  IF 2 * r < d THEN q
        ELSE IF 2 * r > d THEN q + 1
        ELSE IF q % 2 = 0 THEN q ELSE q + 1

\* .fillna(0)
fillna0(v) == IF v = NONE THEN 0 ELSE v

\* an MKP that is NaN when the cost price is missing
MKP_nan(p_cust, p_vend) ==
    IF p_cust = NONE THEN NONE
    ELSE IF p_cust > 0
    THEN (IF p_vend = NONE THEN NONE ELSE Round2(p_vend, p_cust))
    ELSE 0

\* lines 449-457: MKP, in hundredths (NaN > 0 is false; NaN / x is NaN)
MKP(p_cust, p_vend) ==
    IF p_cust # NONE /\ p_cust > 0
    THEN (IF p_vend = NONE THEN NONE ELSE Round2(p_vend, p_cust))
    ELSE 0

\* lines 475-480: MARGEM_BRUTA, in hundredths
MARGEM_BRUTA(faturamento, custo_total) ==
    IF custo_total > 0 THEN Round2(faturamento, custo_total) ELSE 0

\* a line of df_new, with its metrics and the final column names
Line(c, codigo, p_cust, p_vend, grupo, marca, subgrupo) ==
    LET faturamento == c.QTD_SAIDA * fillna0(p_vend)
        custo_total == c.QTD_SAIDA * fillna0(p_cust)
    IN  [COD_GRADE |-> c.COD_GRADE, DATA_MOVIMENTO |-> c.DATA_MOVIMENTO,
         NOME_USUARIO |-> c.NOME_USUARIO, TIPO_MOV |-> c.TIPO_MOV,
         CODIGO_PRODUTO |-> codigo, QTD_SAIDA |-> c.QTD_SAIDA,
         PRECO_CUSTO |-> p_cust, PRECO_VENDA |-> p_vend,
         GRUPO |-> grupo, SUBGRUPO |-> subgrupo, MARCA |-> marca,
         MKP |-> MKP(p_cust, p_vend),
         FATURAMENTO |-> faturamento,
         CUSTO_TOTAL |-> custo_total,
         LUCRO_BRUTO |-> faturamento - custo_total,
         MARGEM_BRUTA |-> MARGEM_BRUTA(faturamento, custo_total)]

\* lines 410-442 and 511-512: df_consolidado.merge(df_produtos, how='left')
Enrich(cons, ref) ==
    IF ref["PRODUTOS"].none
    THEN [i \in DOMAIN cons |->
            Line(cons[i], cons[i].CODIGO_PRODUTO, NONE, NONE, NULL, NULL, NULL)]
    ELSE LET joined == LeftJoin(cons, ProdutosJoined(ref),
                                "CODIGO_PRODUTO", "REFERENCIA")
         IN  [i \in DOMAIN joined |->
                LET c == joined[i].left
                IN  IF joined[i].matched
                    THEN Line(c, astype_str(c.CODIGO_PRODUTO),
                              joined[i].right.PRECO_CUST, joined[i].right.PRECO_VEND,
                              joined[i].right.NOME_GRUPO, joined[i].right.NOME_MARCA,
                              joined[i].right.SUBGRUPO_DESC)
                    ELSE Line(c, astype_str(c.CODIGO_PRODUTO),
                              NONE, NONE, NULL, NULL, NULL)]

----------------------------------------------------------------------------
(* Files *)

\* text columns of SAIDA_GRADE.csv
TextCols ==
    {"COD_GRADE", "DATA_MOVIMENTO", "NOME_USUARIO", "TIPO_MOV", "CODIGO_PRODUTO",
     "GRUPO", "SUBGRUPO", "MARCA"}

\* to_csv: a null cell is written as an empty field
to_csv_row(r) ==
    [c \in DOMAIN r |-> IF c \in TextCols /\ r[c] = NULL THEN "" ELSE r[c]]

\* fields read_csv takes as missing values
NaValues == {"", "nan", "NaN", "NA", "N/A", "NULL", "null", "None", "n/a", "<NA>"}

\* read_csv: a field that is empty or spells a missing value is NaN
read_csv_row(r) ==
    [c \in DOMAIN r |-> IF c \in TextCols /\ r[c] \in NaValues THEN NULL ELSE r[c]]

NoCsv == [exists |-> FALSE, header |-> FALSE, rows |-> <<>>]

\* load_existing_data: the rows of the CSV, or None when the file is missing
\* or cannot be read (a file without its header line cannot)
load_existing_data(file, readable) ==
    IF file.exists /\ file.header /\ readable
    THEN DF([i \in DOMAIN file.rows |-> read_csv_row(file.rows[i])])
    ELSE NoneDF

NoRunState ==
    [exists |-> FALSE, readable |-> FALSE, timestamp |-> <<"", 0>>, mode |-> ""]

\* get_last_run_info: the stored record, or None
get_last_run_info(file) ==
    IF file.exists /\ file.readable
    THEN [none |-> FALSE, timestamp |-> file.timestamp, mode |-> file.mode]
    ELSE [none |-> TRUE, timestamp |-> <<"", 0>>, mode |-> ""]

\* a run state that keeps the hour but not the day of the run
save_last_run_info_stale(t, mode) ==
    [exists |-> TRUE, readable |-> TRUE,
     timestamp |-> isoformat(t - HoursPerDay), mode |-> mode]

\* save_last_run_info({'timestamp': inicio.isoformat(), 'mode': mode, ...})
save_last_run_info(t, mode) ==
    [exists |-> TRUE, readable |-> TRUE, timestamp |-> isoformat(t), mode |-> mode]

\* the run-state file after a write that did not complete
BrokenRunState ==
    [exists |-> TRUE, readable |-> FALSE, timestamp |-> <<"", 0>>, mode |-> ""]

----------------------------------------------------------------------------
(* main *)

\* truth value of an optional number: None and 0 are false
Truthy(n) == n # NONE /\ n # 0

\* a mode whose cutoff is the stored timestamp itself
select_mode_no_window(a, last_run, csv_exists) ==
    IF a.full
    THEN [is_incremental |-> FALSE, use_cache |-> FALSE, data_corte |-> NONE]
    ELSE IF Truthy(a.days)
    THEN [is_incremental |-> FALSE, use_cache |-> FALSE, data_corte |-> NONE]
    ELSE IF ~last_run.none /\ csv_exists
    THEN [is_incremental |-> TRUE, use_cache |-> TRUE,
          data_corte |-> fromisoformat(last_run.timestamp)]
    ELSE [is_incremental |-> FALSE, use_cache |-> FALSE, data_corte |-> NONE]

\* lines 232-251: the mode of the run
select_mode(a, last_run, csv_exists) ==
    IF a.full
    THEN [is_incremental |-> FALSE, use_cache |-> FALSE, data_corte |-> NONE]
    ELSE IF Truthy(a.days)
    THEN [is_incremental |-> FALSE, use_cache |-> FALSE, data_corte |-> NONE]
    ELSE IF ~last_run.none /\ csv_exists
    THEN [is_incremental |-> TRUE, use_cache |-> TRUE,
          data_corte |-> fromisoformat(last_run.timestamp) - SAFETY_WINDOW_HOURS]
    ELSE [is_incremental |-> FALSE, use_cache |-> FALSE, data_corte |-> NONE]

\* the lines this run computes from the rows it extracted
NewLines(rows, ref) == Enrich(df_consolidado(df_saidas(Prepared(rows))), ref)

\* no table read and no append_dedup call is under way
HelpersIdle ==
    /\ reader = ""
    /\ cs_fail = {}
    /\ tried = <<>>
    /\ read_result = [kind |-> "none", value |-> ""]
    /\ rpc = "main"
    /\ fact_file = [exists |-> FALSE, rows |-> <<>>]
    /\ supplied = <<>>
    /\ dpc = "main"

----------------------------------------------------------------------------
(* The database and the clock *)

MaxKardex == 2

MaxRuns == 2

\* the instants at which something happens: the 10th at 08:00 and the 11th at
\* 01:00 (two hours before it is still the 10th)
Instants == {10 * HoursPerDay + 8, 11 * HoursPerDay + 1}

\* the first instant
T0 == 10 * HoursPerDay + 8

\* a withdrawal of order "0", recorded two days before the first run
Historic ==
    [CODIGO_PRODUTO |-> "p", COD_GRADE |-> "g", HISTORICO |-> "RETIRADA",
     NOME_USUARIO |-> "u", NUMERO_PEDIDO |-> "0", QTDE_SAIDA |-> 1,
     QTDE_ENTRADA |-> 0, DATA_MOVIMENTO |-> Day(T0) - 2]

\* movements the shop records, without their date: a counter sale by user
\* "u", a counter sale without a grade by a user whose name is empty, and the
\* note that cancels the withdrawal of order "0"
Movements ==
    { [CODIGO_PRODUTO |-> "p", COD_GRADE |-> "g", HISTORICO |-> "VENDA PDV",
       NOME_USUARIO |-> "u", NUMERO_PEDIDO |-> "1", QTDE_SAIDA |-> 1, QTDE_ENTRADA |-> 0],
      [CODIGO_PRODUTO |-> "p", COD_GRADE |-> NULL, HISTORICO |-> "Venda PDV",
       NOME_USUARIO |-> "", NUMERO_PEDIDO |-> "2", QTDE_SAIDA |-> 1, QTDE_ENTRADA |-> 0],
      [CODIGO_PRODUTO |-> "p", COD_GRADE |-> "g", HISTORICO |-> "CANC. RETIRADA",
       NOME_USUARIO |-> "u", NUMERO_PEDIDO |-> "0", QTDE_SAIDA |-> 0, QTDE_ENTRADA |-> 1] }

Produto(cust, vend) ==
    [REFERENCIA |-> "p", PRECO_CUST |-> cust, PRECO_VEND |-> vend,
     GRUPO |-> "1", MARCA |-> "1", SUB_GRUPO |-> "1"]

Lookup(nome) == [CODIGO |-> "1", NOME |-> nome]

RefDb(produtos, grupos) ==
    [t \in RefTables |->
        IF t = "PRODUTOS" THEN produtos
        ELSE IF t = "GRUPOS" THEN grupos
        ELSE <<Lookup("n")>>]

\* contents of the reference tables: every REFERENCIA held by one product, or
\* one REFERENCIA held by two
RefDbs ==
    { RefDb(<<Produto(2, 5)>>, <<Lookup("n")>>),
      RefDb(<<Produto(2, 5), Produto(0, 5)>>, <<Lookup("n")>>) }

\* the reference tables whose query succeeds in a run
RefAvail == {RefTables, {}}

Args == [full : BOOLEAN, days : {NONE, 0, 1}]

\* the state before the first run, KARDEX holding the rows k
InitWith(k) ==
    /\ kardex = k
    /\ refdb \in RefDbs
    /\ now = T0
    /\ csv = NoCsv
    /\ last_run_file = NoRunState
    /\ cache = [t \in RefTables |-> NoneDF]
    /\ pc = "idle"
    /\ exit_code = NONE
    /\ message = ""
    /\ args = [full |-> FALSE, days |-> NONE]
    /\ inicio = NONE
    /\ is_incremental = FALSE
    /\ use_cache = FALSE
    /\ data_corte = NONE
    /\ query = [corte |-> NONE, inicio |-> NONE]
    /\ df_existing = NoneDF
    /\ df_new = NoneDF
    /\ df_final = NoneDF
    /\ written = 0
    /\ csv0 = NoCsv
    /\ last_run0 = NoRunState
    /\ runs = 0
    /\ df_again = NoneDF
    /\ mpc = "main"
    /\ df_kardex = NoneDF
    /\ refs = NoRefs
    /\ HelpersIdle
    /\ batch = <<>>
    /\ prepared = <<>>
    /\ vendas = <<>>
    /\ devolucoes = <<>>
    /\ consolidado = <<>>
    /\ linhas = <<>>
    /\ ref_loaded = [t \in RefTables |-> NoneDF]
    /\ ppc = "main"

Init == InitWith(<<Historic>>)

\* time passes
Tick ==
    /\ pc = "idle"
    /\ \E t \in Instants : t > now /\ now' = t
    /\ UNCHANGED <<kardex, refdb, filevars, runvars, dfvars, mvars, pvars, hvars>>

\* the shop records a movement, dated today
AddMovement ==
    /\ pc = "idle"
    /\ Len(kardex) < MaxKardex
    /\ \E m \in Movements :
          kardex' = Append(kardex,
              [CODIGO_PRODUTO |-> m.CODIGO_PRODUTO, COD_GRADE |-> m.COD_GRADE,
               HISTORICO |-> m.HISTORICO, NOME_USUARIO |-> m.NOME_USUARIO,
               NUMERO_PEDIDO |-> m.NUMERO_PEDIDO, QTDE_SAIDA |-> m.QTDE_SAIDA,
               QTDE_ENTRADA |-> m.QTDE_ENTRADA, DATA_MOVIMENTO |-> Day(now)])
    /\ UNCHANGED <<refdb, now, filevars, runvars, dfvars, mvars, pvars, hvars>>

\* main() from parse_args to the frame it is about to save (lines 225-540)
Start ==
    /\ pc = "idle"
    /\ runs < MaxRuns
    /\ \E a \in Args, kardex_ok \in BOOLEAN :
        LET last_run  == get_last_run_info(last_run_file)
            mode      == select_mode(a, last_run, csv.exists)
            q         == build_kardex_query(mode.data_corte, a.days, now)
            read      == ler_tabela(kardex_ok, ReadKardex(q, kardex))
            empty     == \/ len(read) = 0
                         \/ Len(df_saidas(Prepared(read.rows))) = 0
        IN  /\ args' = a
            /\ inicio' = now
            /\ is_incremental' = mode.is_incremental
            /\ use_cache' = mode.use_cache
            /\ data_corte' = mode.data_corte
            /\ query' = q
            /\ csv0' = csv
            /\ last_run0' = last_run_file
            /\ runs' = runs + 1
            /\ written' = 0
            /\ csv' = csv
            /\ df_kardex' = read
            /\ IF read.none
               THEN \* ler_tabela raises: __main__ prints the error, exit 1
                    /\ pc' = "exit"
                    /\ exit_code' = 1
                    /\ message' = "ERRO: Falhou ao ler KARDEX"
                    /\ UNCHANGED <<last_run_file, cache>>
                    /\ refs' = NoRefs
                    /\ df_existing' = NoneDF
                    /\ df_new' = NoneDF
                    /\ df_final' = NoneDF
               ELSE IF empty
               THEN \* nothing in the period: an incremental run records
                    \* itself (a write that fails ends in __main__, exit 1),
                    \* then main returns
                    /\ pc' = "exit"
                    /\ \E saved \in IF mode.is_incremental THEN BOOLEAN ELSE {TRUE} :
                          IF saved
                          THEN /\ exit_code' = 0
                               /\ message' = IF len(read) = 0
                                             THEN "Nenhum registro encontrado no periodo"
                                             ELSE "Nenhuma saida encontrada no periodo"
                               /\ last_run_file' =
                                     IF mode.is_incremental
                                     THEN save_last_run_info(now, "incremental")
                                     ELSE last_run_file
                          ELSE /\ exit_code' = 1
                               /\ message' = "ERRO"
                               /\ last_run_file' = BrokenRunState
                    /\ UNCHANGED cache
                    /\ refs' = NoRefs
                    /\ df_existing' = NoneDF
                    /\ df_new' = NoneDF
                    /\ df_final' = NoneDF
               ELSE \E avail \in RefAvail,
                       cache_ok \in IF mode.use_cache THEN BOOLEAN ELSE {TRUE},
                       csv_ok \in IF mode.is_incremental THEN BOOLEAN ELSE {TRUE} :
                    LET ref == [t \in RefTables |->
                                   LoadedRef(mode.use_cache, cache_ok, avail, t)]
                        new == DF(NewLines(read.rows, ref))
                        existing == load_existing_data(csv, csv_ok)
                    IN  /\ pc' = "to_csv"
                        /\ exit_code' = NONE
                        /\ message' = "Salvando"
                        /\ UNCHANGED last_run_file
                        /\ cache' = [t \in RefTables |->
                                        CacheAfter(mode.use_cache, cache_ok, avail, t)]
                        /\ refs' = [cache_ok |-> cache_ok,
                                     queried |-> {t \in RefTables :
                                         Queried(mode.use_cache, cache_ok, t)},
                                     loaded |-> ref]
                        /\ df_new' = new
                        /\ df_existing' =
                              IF mode.is_incremental THEN existing ELSE NoneDF
                        /\ df_final' = IF mode.is_incremental
                                       THEN merge_dataframes(existing, new)
                                       ELSE new
    /\ UNCHANGED <<dbvars, mvars, pvars, hvars>>

\* What main() does not read again once it calls to_csv: the arguments, the
\* mode's cutoff and query, the cache switch and the loaded frame.
Forget ==
    /\ args' = [full |-> FALSE, days |-> NONE]
    /\ use_cache' = FALSE
    /\ data_corte' = NONE
    /\ query' = [corte |-> NONE, inicio |-> NONE]
    /\ df_existing' = NoneDF
    /\ df_kardex' = NoneDF
    /\ refs' = NoRefs

\* df_final.to_csv(CSV_PATH): the file is opened for writing, which empties it
CsvOpen ==
    /\ pc = "to_csv"
    /\ pc' = "writing"
    /\ csv' = [exists |-> TRUE, header |-> FALSE, rows |-> <<>>]
    /\ Forget
    /\ UNCHANGED <<dbvars, last_run_file, cache, exit_code, message, inicio, is_incremental,
                   written, csv0, last_run0, runs, df_new, df_final, mvars, pvars, hvars>>

\* the file cannot be opened (PermissionError): exit 1, the file is as it was
CsvOpenFails ==
    /\ pc = "to_csv"
    /\ pc' = "exit"
    /\ exit_code' = 1
    /\ message' = "Arquivo aberto! Feche e tente novamente."
    /\ Forget
    /\ UNCHANGED <<dbvars, filevars, inicio, is_incremental, written, csv0,
                   last_run0, runs, df_new, df_final, mvars, pvars, hvars>>

\* to_csv writes the header line, then one row after the other
CsvWrite ==
    /\ pc = "writing"
    /\ \/ /\ ~csv.header
          /\ csv' = [csv EXCEPT !.header = TRUE]
          /\ UNCHANGED written
       \/ /\ csv.header
          /\ written < len(df_final)
          /\ csv' = [csv EXCEPT !.rows = Append(@, to_csv_row(df_final.rows[written + 1]))]
          /\ written' = written + 1
    /\ UNCHANGED <<dbvars, last_run_file, cache, pc, exit_code, message, args,
                   inicio, is_incremental, use_cache, data_corte, query, csv0,
                   last_run0, runs, dfvars, mvars, pvars, hvars>>

\* a failing write that records the run all the same
CsvWriteFails_saves_state ==
    /\ pc = "writing"
    /\ pc' = "exit"
    /\ exit_code' = 1
    /\ message' \in {"Erro", "Interrompido"}
    /\ last_run_file' =
          save_last_run_info(inicio, IF is_incremental THEN "incremental" ELSE "full")
    /\ UNCHANGED <<dbvars, csv, cache, args, inicio, is_incremental, use_cache,
                   data_corte, query, written, csv0, last_run0, runs, dfvars, mvars, pvars, hvars>>

\* a write fails (any Exception) or the run is interrupted while writing
\* (KeyboardInterrupt, caught in __main__): exit 1
CsvWriteFails ==
    /\ pc = "writing"
    /\ pc' = "exit"
    /\ exit_code' = 1
    /\ message' \in {"Erro", "Interrompido"}
    /\ UNCHANGED <<dbvars, filevars, args, inicio, is_incremental, use_cache,
                   data_corte, query, written, csv0, last_run0, runs, dfvars, mvars, pvars, hvars>>

\* to_csv returns
CsvClose ==
    /\ pc = "writing"
    /\ csv.header
    /\ written = len(df_final)
    /\ pc' = "save_last_run"
    /\ UNCHANGED <<dbvars, filevars, exit_code, message, args, inicio, is_incremental,
                   use_cache, data_corte, query, written, csv0, last_run0, runs,
                   dfvars, mvars, pvars, hvars>>

\* lines 565-571: save_last_run_info, then main returns
SaveLastRun ==
    /\ pc = "save_last_run"
    /\ pc' = "exit"
    /\ exit_code' = 0
    /\ message' = "linhas de saida processadas"
    /\ last_run_file' =
          save_last_run_info(inicio, IF is_incremental THEN "incremental" ELSE "full")
    /\ UNCHANGED <<dbvars, csv, cache, args, inicio, is_incremental, use_cache,
                   data_corte, query, written, csv0, last_run0, runs, dfvars, mvars, pvars, hvars>>

\* writing the run state fails: the file was opened with 'w', exit 1
SaveLastRunFails ==
    /\ pc = "save_last_run"
    /\ pc' = "exit"
    /\ exit_code' = 1
    /\ message' = "ERRO"
    /\ last_run_file' = BrokenRunState
    /\ UNCHANGED <<dbvars, csv, cache, args, inicio, is_incremental, use_cache,
                   data_corte, query, written, csv0, last_run0, runs, dfvars, mvars, pvars, hvars>>

\* the process has ended: nothing of the run remains but the files
Exit ==
    /\ pc = "exit"
    /\ pc' = "idle"
    /\ exit_code' = NONE
    /\ message' = ""
    /\ args' = [full |-> FALSE, days |-> NONE]
    /\ inicio' = NONE
    /\ is_incremental' = FALSE
    /\ use_cache' = FALSE
    /\ data_corte' = NONE
    /\ query' = [corte |-> NONE, inicio |-> NONE]
    /\ df_existing' = NoneDF
    /\ df_kardex' = NoneDF
    /\ refs' = NoRefs
    /\ df_new' = NoneDF
    /\ df_final' = NoneDF
    /\ written' = 0
    /\ csv0' = NoCsv
    /\ last_run0' = NoRunState
    /\ UNCHANGED <<dbvars, filevars, runs, mvars, pvars, hvars>>

Next ==
    \/ Tick
    \/ AddMovement
    \/ Start
    \/ CsvOpen
    \/ CsvOpenFails
    \/ CsvWrite
    \/ CsvWriteFails
    \/ CsvClose
    \/ SaveLastRun
    \/ SaveLastRunFails
    \/ Exit

Spec == Init /\ [][Next]_vars

\* the same program over a KARDEX that is empty before the first run, so that
\* two movements of one day fit in it
InitEmpty == InitWith(<<>>)

SpecEmpty == InitEmpty /\ [][Next]_vars

----------------------------------------------------------------------------
(* The merge on its own: every pair of frames over a small set of lines *)

MaxRows == 2

\* Lines over three keys; the '_key' text of the last two is the same.
MergeKeys ==
    { <<"g", "10", "u">>, <<"g|10", "10", "u">>, <<"g", "10", "10|u">> }

MergeLines ==
    { [COD_GRADE |-> k[1], DATA_MOVIMENTO |-> k[2], NOME_USUARIO |-> k[3],
       TIPO_MOV |-> "VENDA", QTD_SAIDA |-> q] : k \in MergeKeys, q \in 1..2 }

SeqsUpTo(S, n) == UNION {[1..k -> S] : k \in 0..n}

MergeFrames == {NoneDF} \cup {DF(s) : s \in SeqsUpTo(MergeLines, MaxRows)}

MergeInit ==
    /\ df_existing \in MergeFrames
    /\ df_new \in MergeFrames
    /\ df_final = NoneDF
    /\ df_again = NoneDF
    /\ mpc = "args"
    /\ kardex = <<>>
    /\ refdb = RefDb(<<>>, <<>>)
    /\ now = T0
    /\ csv = NoCsv
    /\ last_run_file = NoRunState
    /\ cache = [t \in RefTables |-> NoneDF]
    /\ pc = "merge"
    /\ exit_code = NONE
    /\ message = ""
    /\ args = [full |-> FALSE, days |-> NONE]
    /\ inicio = NONE
    /\ is_incremental = TRUE
    /\ use_cache = TRUE
    /\ data_corte = NONE
    /\ query = [corte |-> NONE, inicio |-> NONE]
    /\ written = 0
    /\ csv0 = NoCsv
    /\ last_run0 = NoRunState
    /\ runs = 0
    /\ df_kardex = NoneDF
    /\ refs = NoRefs
    /\ HelpersIdle
    /\ batch = <<>>
    /\ prepared = <<>>
    /\ vendas = <<>>
    /\ devolucoes = <<>>
    /\ consolidado = <<>>
    /\ linhas = <<>>
    /\ ref_loaded = [t \in RefTables |-> NoneDF]
    /\ ppc = "main"

\* df_final = merge_dataframes(df_existing, df_new)
MergeCall ==
    /\ mpc = "args"
    /\ df_final' = merge_dataframes(df_existing, df_new)
    /\ mpc' = "merged"
    /\ UNCHANGED <<dbvars, filevars, runvars, df_existing, df_new, df_again, df_kardex, refs, pvars, hvars>>

\* merge_dataframes(df_final, df_new): the same new lines merged once more
MergeAgain ==
    /\ mpc = "merged"
    /\ df_again' = merge_dataframes(df_final, df_new)
    /\ mpc' = "again"
    /\ UNCHANGED <<dbvars, filevars, runvars, df_existing, df_new, df_final, df_kardex, refs, pvars, hvars>>

MergeNext == MergeCall \/ MergeAgain

SpecMerge == MergeInit /\ [][MergeNext]_vars

----------------------------------------------------------------------------
(* Steps 1 to 4 on their own: every small batch main() can extract *)

MaxBatch == 3

\* a KARDEX row as pd.read_sql returns it, dated the 10th
Movement(historico, pedido, grade, produto, usuario, saida) ==
    [CODIGO_PRODUTO |-> produto, COD_GRADE |-> grade, HISTORICO |-> historico,
     NOME_USUARIO |-> usuario, NUMERO_PEDIDO |-> pedido, QTDE_SAIDA |-> saida,
     QTDE_ENTRADA |-> 3, DATA_MOVIMENTO |-> "10"]

\* the notes of the shop: counter sale, withdrawal, cancelled withdrawal, return
Historicos == {"Venda PDV", "RETIRADA", "CANC. RETIRADA", "DEVOLU^C~AO"}

\* every note for two orders, on grade "g" of product "p" by user "u"; and
\* counter sales of order "1" that differ in one column: twice the quantity,
\* no grade, an empty or a blank grade (product "1234", which PRODUTOS does
\* not hold), no user; and the return of a counter sale, whose note holds
\* both markers
BatchRows ==
    { Movement(h, n, "g", "p", "u", 1) : h \in Historicos, n \in {"1", "2"} }
        \cup { Movement("Venda PDV", "1", "g", "p", "u", 2),
               Movement("Venda PDV", "1", NULL, "1234", "u", 1),
               Movement("Venda PDV", "1", "", "1234", "u", 1),
               Movement("Venda PDV", "1", " ", "1234", "u", 1),
               Movement("Venda PDV", "1", "g", "p", NULL, 1),
               Movement("DEVOLU^C~AO VENDA PDV", "1", "g", "p", "u", 1) }

\* PRODUTOS rows of REFERENCIA "p" with every kind of price: the cost price
\* missing (NULL in the table, NaN in the frame), negative, zero or positive,
\* the sell price missing, zero or positive
PricedProdutos ==
    << Produto(NONE, NONE), Produto(NONE, 0), Produto(NONE, 5),
       Produto(-1, NONE), Produto(-1, 0), Produto(-1, 5),
       Produto(0, NONE), Produto(0, 0), Produto(0, 5),
       Produto(2, NONE), Produto(2, 0), Produto(2, 5), Produto(8, 1) >>

\* what the run has of the reference tables when it enriches: all of them,
\* with one or with two products of REFERENCIA "p"; PRODUTOS alone, with
\* every kind of price; none
BatchRefs ==
    { [t \in RefTables |-> DF(RefDb(<<Produto(2, 5)>>, <<Lookup("n")>>)[t])],
      [t \in RefTables |-> DF(RefDb(<<Produto(2, 5), Produto(0, 5)>>, <<Lookup("n")>>)[t])],
      [t \in RefTables |-> IF t = "PRODUTOS" THEN DF(PricedProdutos) ELSE NoneDF],
      [t \in RefTables |-> NoneDF] }

BatchInit ==
    /\ batch \in SeqsUpTo(BatchRows, MaxBatch)
    /\ ref_loaded = [t \in RefTables |-> NoneDF]
    /\ prepared = <<>>
    /\ vendas = <<>>
    /\ devolucoes = <<>>
    /\ consolidado = <<>>
    /\ linhas = <<>>
    /\ ppc = "read"
    /\ kardex = <<>>
    /\ refdb = RefDb(<<>>, <<>>)
    /\ now = T0
    /\ csv = NoCsv
    /\ last_run_file = NoRunState
    /\ cache = [t \in RefTables |-> NoneDF]
    /\ pc = "batch"
    /\ exit_code = NONE
    /\ message = ""
    /\ args = [full |-> FALSE, days |-> NONE]
    /\ inicio = NONE
    /\ is_incremental = FALSE
    /\ use_cache = FALSE
    /\ data_corte = NONE
    /\ query = [corte |-> NONE, inicio |-> NONE]
    /\ written = 0
    /\ csv0 = NoCsv
    /\ last_run0 = NoRunState
    /\ runs = 0
    /\ df_existing = NoneDF
    /\ df_new = NoneDF
    /\ df_final = NoneDF
    /\ df_kardex = NoneDF
    /\ refs = NoRefs
    /\ HelpersIdle
    /\ df_again = NoneDF
    /\ mpc = "main"

\* lines 259-288: main goes on when the batch is not empty
Prepare ==
    /\ ppc = "read"
    /\ Len(batch) > 0
    /\ prepared' = Prepared(batch)
    /\ ppc' = "prepared"
    /\ UNCHANGED <<dbvars, filevars, runvars, dfvars, mvars, hvars, batch, vendas,
                   devolucoes, consolidado, linhas, ref_loaded>>

\* lines 290-327: df_vendas and df_devolucoes
Classify ==
    /\ ppc = "prepared"
    /\ vendas' = df_vendas(prepared)
    /\ devolucoes' = df_devolucoes(prepared)
    /\ ppc' = "classified"
    /\ UNCHANGED <<dbvars, filevars, runvars, dfvars, mvars, hvars, batch, prepared,
                   consolidado, linhas, ref_loaded>>

\* lines 331-356: main goes on when df_saidas is not empty
Group ==
    /\ ppc = "classified"
    /\ Len(vendas \o devolucoes) > 0
    /\ consolidado' = df_consolidado(vendas \o devolucoes)
    /\ ppc' = "grouped"
    /\ UNCHANGED <<dbvars, filevars, runvars, dfvars, mvars, hvars, batch, prepared,
                   vendas, devolucoes, linhas, ref_loaded>>

\* lines 361-512: the reference tables are loaded, then the lines of df_new
EnrichLines ==
    /\ ppc = "grouped"
    /\ \E ref \in BatchRefs :
          /\ ref_loaded' = ref
          /\ linhas' = Enrich(consolidado, ref)
    /\ ppc' = "enriched"
    /\ UNCHANGED <<dbvars, filevars, runvars, dfvars, mvars, hvars, batch, prepared,
                   vendas, devolucoes, consolidado>>

BatchNext == Prepare \/ Classify \/ Group \/ EnrichLines

SpecBatch == BatchInit /\ [][BatchNext]_vars

----------------------------------------------------------------------------
(* A table read on its own: ler_tabela (saida_grade.py) and exec_sql
   (build_period_report.py) *)

\* everything of main() and of the other harnesses, at rest
MainIdle ==
    /\ refdb = RefDb(<<>>, <<>>)
    /\ now = T0
    /\ csv = NoCsv
    /\ last_run_file = NoRunState
    /\ cache = [t \in RefTables |-> NoneDF]
    /\ exit_code = NONE
    /\ message = ""
    /\ args = [full |-> FALSE, days |-> NONE]
    /\ inicio = NONE
    /\ is_incremental = FALSE
    /\ use_cache = FALSE
    /\ data_corte = NONE
    /\ query = [corte |-> NONE, inicio |-> NONE]
    /\ written = 0
    /\ csv0 = NoCsv
    /\ last_run0 = NoRunState
    /\ runs = 0
    /\ df_existing = NoneDF
    /\ df_new = NoneDF
    /\ df_final = NoneDF
    /\ df_kardex = NoneDF
    /\ refs = NoRefs
    /\ df_again = NoneDF
    /\ mpc = "main"
    /\ batch = <<>>
    /\ prepared = <<>>
    /\ vendas = <<>>
    /\ devolucoes = <<>>
    /\ consolidado = <<>>
    /\ linhas = <<>>
    /\ ref_loaded = [t \in RefTables |-> NoneDF]
    /\ ppc = "main"

CHARSETS == <<"UTF8", "WIN1252", "ISO8859_1", "DOS850">>

Readers == {"ler_tabela", "exec_sql"}

\* the exception conectar or pd.read_sql raises with a charset
ErrorOf(cs) == "error with " \o cs

NoResult == [kind |-> "none", charset |-> "", rows |-> <<>>, error |-> ""]

ReadInit ==
    /\ MainIdle
    /\ pc = "read"
    /\ kardex \in {<<>>, <<Historic>>}
    /\ reader \in Readers
    /\ cs_fail \in SUBSET Range(CHARSETS)
    /\ tried = <<>>
    /\ read_result = NoResult
    /\ rpc = "loop"
    /\ fact_file = [exists |-> FALSE, rows |-> <<>>]
    /\ supplied = <<>>
    /\ dpc = "main"

\* one turn of `for cs in CHARSETS`: the frame is returned, or the exception
\* is caught (exec_sql keeps it in `last`, ler_tabela keeps nothing)
TryCharset ==
    /\ rpc = "loop"
    /\ Len(tried) < Len(CHARSETS)
    /\ LET cs == CHARSETS[Len(tried) + 1]
       IN  /\ tried' = Append(tried, cs)
           /\ IF cs \notin cs_fail
              THEN /\ read_result' = [kind |-> "data", charset |-> cs,
                                      rows |-> kardex, error |-> ""]
                   /\ rpc' = "returned"
              ELSE /\ read_result' =
                        IF reader = "exec_sql"
                        THEN [kind |-> "caught", charset |-> cs, rows |-> <<>>,
                              error |-> ErrorOf(cs)]
                        ELSE read_result
                   /\ rpc' = "loop"
    /\ UNCHANGED <<dbvars, filevars, runvars, dfvars, mvars, pvars, reader, cs_fail,
                   fact_file, supplied, dpc>>

\* after the loop: ler_tabela raises Exception("Falhou ao ler ..."), exec_sql
\* raises `last`
RaiseAfterLoop ==
    /\ rpc = "loop"
    /\ Len(tried) = Len(CHARSETS)
    /\ read_result' =
          IF reader = "exec_sql"
          THEN [read_result EXCEPT !.kind = "raised"]
          ELSE [kind |-> "raised", charset |-> "", rows |-> <<>>,
                error |-> "Falhou ao ler KARDEX"]
    /\ rpc' = "raised"
    /\ UNCHANGED <<dbvars, filevars, runvars, dfvars, mvars, pvars, reader, cs_fail,
                   tried, fact_file, supplied, dpc>>

\* Ctrl-C during an attempt: ler_tabela exits with status 1; in exec_sql
\* KeyboardInterrupt is not an Exception and leaves the function
Interrupt ==
    /\ rpc = "loop"
    /\ Len(tried) < Len(CHARSETS)
    /\ LET cs == CHARSETS[Len(tried) + 1]
       IN  /\ tried' = Append(tried, cs)
           /\ read_result' =
                 IF reader = "exec_sql"
                 THEN [kind |-> "raised", charset |-> cs, rows |-> <<>>,
                       error |-> "KeyboardInterrupt"]
                 ELSE [kind |-> "exit", charset |-> cs, rows |-> <<>>, error |-> ""]
    /\ rpc' = "interrupted"
    /\ UNCHANGED <<dbvars, filevars, runvars, dfvars, mvars, pvars, reader, cs_fail,
                   fact_file, supplied, dpc>>

ReadNext == TryCharset \/ RaiseAfterLoop \/ Interrupt

SpecRead == ReadInit /\ [][ReadNext]_vars

----------------------------------------------------------------------------
(* append_dedup (build_period_report.py) on its own *)

MaxDf == 2

MaxCalls == 2

\* key_cols of fato_vendas_vendedor_diario.csv
DedupKeyCols == <<"Data", "Vendedor">>

\* pd.to_datetime(...).dt.strftime("%Y-%m-%d") on the dates of the model
strftime_ymd(d) == IF d = "2024-1-5" THEN "2024-01-05" ELSE d

\* lines 94-96: the key column named Data as YYYY-MM-DD text
NormalizeData(df) ==
    [i \in DOMAIN df |-> [df[i] EXCEPT !.Data = strftime_ymd(df[i].Data)]]

\* to_csv / read_csv of a fato file: a null Vendedor is written as an empty
\* field, an empty field is read as NaN
fact_to_csv(rows) ==
    [i \in DOMAIN rows |->
        [rows[i] EXCEPT !.Vendedor = IF @ = NULL THEN "" ELSE @]]

fact_read_csv(rows) ==
    [i \in DOMAIN rows |->
        [rows[i] EXCEPT !.Vendedor = IF @ \in NaValues THEN NULL ELSE @]]

DedupKey(r) == [i \in DOMAIN DedupKeyCols |-> r[DedupKeyCols[i]]]

\* drop_duplicates(key_cols, keep="last"): of the rows with the same key (NaN
\* equal to NaN) the last one, in the order of the frame
drop_duplicates(rows) ==
    LET idx == SelectSeq([i \in DOMAIN rows |-> i], LAMBDA i :
                    \A j \in DOMAIN rows : j > i => DedupKey(rows[j]) # DedupKey(rows[i]))
    IN  [n \in DOMAIN idx |-> rows[idx[n]]]

\* append_dedup(df, path, key_cols): the content of the file afterwards
append_dedup(df, file) ==
    LET new == NormalizeData(df)
    IN  IF file.exists
        THEN [exists |-> TRUE,
              rows |-> fact_to_csv(drop_duplicates(fact_read_csv(file.rows) \o new))]
        ELSE [exists |-> TRUE, rows |-> fact_to_csv(new)]

\* rows of vendor_daily: two sellers, one of them without a name, two
\* amounts, and a row whose date is not yet YYYY-MM-DD
DedupRows ==
    { [Data |-> "2024-01-05", Vendedor |-> v, Venda |-> n] :
          v \in {"a", ""}, n \in {1, 2} }
        \cup { [Data |-> "2024-1-5", Vendedor |-> "a", Venda |-> 3] }

DedupInit ==
    /\ MainIdle
    /\ pc = "dedup"
    /\ kardex = <<>>
    /\ reader = ""
    /\ cs_fail = {}
    /\ tried = <<>>
    /\ read_result = NoResult
    /\ rpc = "main"
    /\ fact_file = [exists |-> FALSE, rows |-> <<>>]
    /\ supplied = <<>>
    /\ dpc = "idle"

\* one run of build_period_report.py calls append_dedup on the file
AppendDedup ==
    /\ dpc = "idle"
    /\ Len(supplied) < MaxCalls
    /\ \E df \in SeqsUpTo(DedupRows, MaxDf) :
          /\ fact_file' = append_dedup(df, fact_file)
          /\ supplied' = Append(supplied, df)
    /\ UNCHANGED <<dbvars, filevars, runvars, dfvars, mvars, pvars, reader, cs_fail,
                   tried, read_result, rpc, dpc>>

DedupNext == AppendDedup

SpecDedup == DedupInit /\ [][DedupNext]_vars

----------------------------------------------------------------------------
(* Properties *)

\* no two rows of the sequence have the same composite key
UniqueKeys(rows) ==
    \A i, j \in DOMAIN rows : key_cols(rows[i]) = key_cols(rows[j]) => i = j

\* the composite keys of a frame's rows
KeysOf(df) == {key_cols(r) : r \in Range(df.rows)}

\* a run of main() has ended and nothing else has happened since
Ended == pc = "exit"

\* SAIDA_GRADE.csv holds the whole of df_final
CsvComplete ==
    /\ csv.exists
    /\ csv.header
    /\ csv.rows = [i \in DOMAIN df_final.rows |-> to_csv_row(df_final.rows[i])]

\* the run is at a point where its arguments and mode are still in memory
ModeVisible ==
    \/ pc = "to_csv"
    \/ /\ pc = "exit"
       /\ message \in {"ERRO: Falhou ao ler KARDEX",
                       "Nenhum registro encontrado no periodo",
                       "Nenhuma saida encontrada no periodo"}

\* the quantity SAIDA_GRADE.csv holds for a composite key
RECURSIVE QtyOf(_, _)
QtyOf(rows, k) ==
    IF Len(rows) = 0 THEN 0
    ELSE (IF key_cols(Head(rows)) = k THEN Head(rows).QTD_SAIDA ELSE 0)
            + QtyOf(Tail(rows), k)

\* C1: SAIDA_GRADE.csv never holds two rows with the same composite key
\* (COD_GRADE, DATA_MOVIMENTO, NOME_USUARIO, TIPO_MOV), whatever runs happened
\* and whatever KARDEX and the reference tables hold.
C1_CsvKeyUnique == UniqueKeys(csv.rows)

\* C2: the frame merge_dataframes returns has no two rows with the same
\* composite key, for every pair of frames, also when an argument holds
\* repeated keys or is empty or None.
C2_MergeKeyUnique == mpc \in {"merged", "again"} => UniqueKeys(df_final.rows)

\* C3: with both arguments non-empty, merge_dataframes returns exactly the rows
\* of df_new plus the rows of df_existing whose composite key does not occur in
\* df_new, those unchanged.
C3_MergeUpsert ==
    (mpc \in {"merged", "again"} /\ len(df_existing) > 0 /\ len(df_new) > 0)
        => SameRows(df_final.rows,
                    SelectSeq(df_existing.rows,
                              LAMBDA r : key_cols(r) \notin KeysOf(df_new))
                        \o df_new.rows)

\* C4: the number of rows merge_dataframes returns is |existing| minus the
\* number of keys common to existing and new, plus |new|.
C4_MergeCount ==
    mpc \in {"merged", "again"}
        => len(df_final) = len(df_existing)
                             - Cardinality(KeysOf(df_existing) \cap KeysOf(df_new))
                             + len(df_new)

\* merging df_new a second time returns the rows the first merge returned
MergeIdempotent ==
    mpc = "again" => /\ df_again.none = df_final.none
                     /\ SameRows(df_again.rows, df_final.rows)

\* C5: merging is idempotent, so an incremental run that computes again lines the
\* file already holds (same key, same quantity) does not repeat a key or count
\* a quantity twice: after it no key has a larger quantity in the file than
\* before it.
C5_RerunNoDoubleCount ==
    ( /\ Ended
      /\ exit_code = 0
      /\ is_incremental
      /\ len(df_new) > 0
      /\ \A i \in DOMAIN df_new.rows :
            \E j \in DOMAIN csv0.rows :
                /\ key_cols(csv0.rows[j]) = key_cols(to_csv_row(df_new.rows[i]))
                /\ csv0.rows[j].QTD_SAIDA = df_new.rows[i].QTD_SAIDA )
        => \A j \in DOMAIN csv.rows :
              QtyOf(csv.rows, key_cols(csv.rows[j]))
                  <= QtyOf(csv0.rows, key_cols(csv.rows[j]))

\* C6: merge_dataframes returns the existing rows unchanged when the new frame
\* is empty or None, and the new rows when the existing frame is empty or None.
C6_MergeEmpty ==
    mpc \in {"merged", "again"}
        => /\ (df_new.none \/ len(df_new) = 0) => df_final.rows = df_existing.rows
           /\ (df_existing.none \/ len(df_existing) = 0) => df_final.rows = df_new.rows

\* C6 witness: two existing rows and no new frame, returned as they were
C6_Witness ==
    /\ mpc = "merged"
    /\ df_new.none
    /\ len(df_existing) = 2
    /\ df_final = df_existing

\* C7: in a run that reaches the final persistence step the run-state file is
\* written only after SAIDA_GRADE.csv was written in full; when writing the CSV
\* fails the run exits with status 1 and the run state read afterwards is the
\* one read before the run.
C7_RunStateAfterCsv ==
    /\ pc \in {"to_csv", "writing", "save_last_run"} => last_run_file = last_run0
    /\ (Ended /\ message \in {"Arquivo aberto! Feche e tente novamente.",
                              "Erro", "Interrompido"})
          => /\ exit_code = 1
             /\ last_run_file = last_run0
             /\ get_last_run_info(last_run_file) = get_last_run_info(last_run0)
    /\ (Ended /\ ~df_final.none /\ message \in {"linhas de saida processadas", "ERRO"})
          => CsvComplete

\* C7 witness: a run state with a timestamp existed, the CSV write failed part
\* way, and the run state is still that one
C7_Witness ==
    /\ Ended
    /\ message = "Erro"
    /\ exit_code = 1
    /\ ~get_last_run_info(last_run0).none
    /\ last_run_file = last_run0
    /\ csv # csv0

\* C8: after a run whose final write failed or was interrupted, SAIDA_GRADE.csv
\* is either the complete new result or exactly what it was before the run.
C8_NoPartialOutput == Ended => (csv = csv0 \/ CsvComplete)

\* C9: --full gives a full load with no cutoff; otherwise --days N gives a
\* day-bounded load that is not incremental; otherwise a readable run state
\* together with an existing CSV gives an incremental run whose cutoff is the
\* stored timestamp minus 2 hours; every other case is a full load.
C9_ModeSelection ==
    ModeVisible =>
        LET last_run == get_last_run_info(last_run0)
        IN  IF args.full
            THEN ~is_incremental /\ data_corte = NONE
            ELSE IF args.days # NONE
            THEN ~is_incremental /\ data_corte = NONE /\ query.inicio # NONE
            ELSE IF ~last_run.none /\ csv0.exists
            THEN /\ is_incremental
                 /\ data_corte = fromisoformat(last_run.timestamp) - 2
            ELSE /\ ~is_incremental
                 /\ data_corte = NONE
                 /\ query = [corte |-> NONE, inicio |-> NONE]

\* C10: a run with --full extracts KARDEX without any date restriction whatever
\* the run state is, reads no reference cache and merges nothing: the frame it
\* saves is the one it computed.
C10_FullIgnoresState ==
    (ModeVisible /\ args.full)
        => /\ query = [corte |-> NONE, inicio |-> NONE]
           /\ ~use_cache
           /\ pc = "to_csv" => (df_existing.none /\ df_final = df_new)

\* the run found nothing in the period and returned
NothingFound ==
    /\ Ended
    /\ exit_code = 0
    /\ ~df_kardex.none
    /\ \/ len(df_kardex) = 0
       \/ Len(df_saidas(Prepared(df_kardex.rows))) = 0

\* C11: an incremental run that extracts no KARDEX row, or none that is a sale
\* or a return, writes a run state whose timestamp is the start of this run and
\* leaves SAIDA_GRADE.csv as it was.
C11_EmptyIncremental ==
    (NothingFound /\ is_incremental)
        => /\ ~get_last_run_info(last_run_file).none
           /\ get_last_run_info(last_run_file).timestamp = isoformat(inicio)
           /\ fromisoformat(get_last_run_info(last_run_file).timestamp) = now
           /\ csv = csv0
           /\ df_final.none

\* C11 witness: an incremental run started later than the run before it,
\* extracted no row, and moved the run state forward without touching the CSV
C11_Witness ==
    /\ NothingFound
    /\ is_incremental
    /\ len(df_kardex) = 0
    /\ ~get_last_run_info(last_run0).none
    /\ get_last_run_info(last_run0).timestamp # isoformat(inicio)
    /\ get_last_run_info(last_run_file).timestamp = isoformat(inicio)
    /\ csv0.exists
    /\ csv = csv0

\* the rows of KARDEX dated on day d or later, as pd.read_sql returns them
KardexSince(d) ==
    LET sel == SelectSeq(kardex, LAMBDA m : m.DATA_MOVIMENTO >= d)
    IN  [i \in DOMAIN sel |-> [sel[i] EXCEPT !.DATA_MOVIMENTO = DateStr(@)]]

ExtractionFailed == Ended /\ df_kardex.none /\ df_final.none

\* C13: when every attempt to read KARDEX fails the run ends with status 1 and
\* neither SAIDA_GRADE.csv nor the run state is modified; a run that goes on
\* with a frame, empty or not, got the rows its query selects.
C13_FailedExtraction ==
    /\ ExtractionFailed
          => /\ exit_code = 1
             /\ message = "ERRO: Falhou ao ler KARDEX"
             /\ csv = csv0
             /\ last_run_file = last_run0
    /\ (pc \in {"to_csv", "exit"} /\ ~df_kardex.none)
          => df_kardex.rows = ReadKardex(query, kardex)

\* C13 witness: the run would have been incremental, with KARDEX rows to
\* extract and a run state older than this run; the read failed and the run
\* state is the old one
C13_Witness ==
    /\ ExtractionFailed
    /\ is_incremental
    /\ Len(Selected(query, kardex)) > 0
    /\ get_last_run_info(last_run0).timestamp # isoformat(inicio)
    /\ last_run_file = last_run0
    /\ csv = csv0
    /\ exit_code = 1

\* the batch has been classified
ClassifiedDone == ppc \in {"classified", "grouped", "enriched"}

\* the order numbers that have a record whose note contains 'CANC'
CancelledOrders ==
    {prepared[j].NUMERO_PEDIDO :
        j \in {k \in DOMAIN prepared : Contains(prepared[k].HISTORICO, "CANC")}}

\* C14: no record of the sale set shares its order number with a record whose
\* note contains a cancellation marker, be it a counter sale (VENDA PDV) or a
\* withdrawal (RETIRADA).
C14_CancelledSaleAbsent ==
    ClassifiedDone
        => \A i \in DOMAIN vendas : vendas[i].NUMERO_PEDIDO \notin CancelledOrders

\* the part of C14 the classifier keeps: no withdrawal of a cancelled order is
\* in the sale set
CancelledWithdrawalAbsent ==
    ClassifiedDone
        => \A i \in DOMAIN vendas :
              ~Contains(vendas[i].HISTORICO, "VENDA PDV")
                  => vendas[i].NUMERO_PEDIDO \notin CancelledOrders

\* every row of KARDEX, treated as main treats an extracted batch
WholeKardex == Prepared(ReadKardex([corte |-> NONE, inicio |-> NONE], kardex))

\* keys of the withdrawals and returns of KARDEX whose order has a
\* cancellation note in KARDEX
CancelledKeys ==
    {<<m.COD_GRADE, m.DATA_MOVIMENTO, m.NOME_USUARIO,
       IF Contains(m.HISTORICO, "RETIRADA") THEN "VENDA" ELSE "DEVOLUCAO">> :
        m \in {r \in Range(WholeKardex) :
                 /\ Contains(r.HISTORICO, "RETIRADA") \/ Contains(r.HISTORICO, "DEVOLU^C~AO")
                 /\ ~Contains(r.HISTORICO, "CANC")
                 /\ r.NUMERO_PEDIDO \in pedidos_cancelados(WholeKardex)}}

\* keys of the sales and returns of KARDEX that no note cancels
EffectiveKeys == {key_cols(r) : r \in Range(df_saidas(WholeKardex))}

\* C15: once an incremental run has succeeded, SAIDA_GRADE.csv does not count
\* a withdrawal or return whose order has a cancellation note in KARDEX: a key
\* that only cancelled movements contribute to has no line, whether the
\* movement is dated inside or outside the window the run extracted.
C15_CancelledNotCounted ==
    (Ended /\ exit_code = 0 /\ is_incremental)
        => \A k \in CancelledKeys \ EffectiveKeys :
              \A j \in DOMAIN csv.rows : key_cols(csv.rows[j]) # k

\* the upper-cased notes of the records of the batch
Notes == [i \in DOMAIN batch |-> upper(astype_str(batch[i].HISTORICO))]

\* order numbers of the records whose note contains 'CANC'
BatchCancelled(notes) ==
    {batch[j].NUMERO_PEDIDO : j \in {k \in DOMAIN batch : Contains(notes[k], "CANC")}}

\* the records of the batch that are sales by the rule of C16
SaleRecords(notes, cancelled) ==
    {i \in DOMAIN batch :
        \/ Contains(notes[i], "VENDA PDV")
        \/ /\ Contains(notes[i], "RETIRADA")
           /\ ~Contains(notes[i], "CANC")
           /\ batch[i].NUMERO_PEDIDO \notin cancelled}

\* the records of the batch that are returns by the rule of C17
ReturnRecords(notes, cancelled) ==
    {i \in DOMAIN batch :
        /\ Contains(notes[i], "DEVOLU^C~AO")
        /\ ~Contains(notes[i], "CANC")
        /\ batch[i].NUMERO_PEDIDO \notin cancelled}

\* the k-th record of a set of records of the batch, in batch order
Kth(idx, k) == CHOOSE i \in idx : Cardinality({j \in idx : j <= i}) = k

\* row is the i-th record of the batch, classified
RowOf(row, i, notes) ==
    /\ row.NUMERO_PEDIDO = batch[i].NUMERO_PEDIDO
    /\ row.HISTORICO = notes[i]
    /\ row.NOME_USUARIO = batch[i].NOME_USUARIO
    /\ row.DATA_MOVIMENTO = batch[i].DATA_MOVIMENTO
    /\ row.CODIGO_PRODUTO = batch[i].CODIGO_PRODUTO
    /\ row.QTDE_SAIDA = batch[i].QTDE_SAIDA
    /\ row.QTDE_ENTRADA = batch[i].QTDE_ENTRADA

\* C16: the sale set holds exactly the records whose upper-cased note contains
\* 'VENDA PDV', or contains 'RETIRADA' and not 'CANC' while their order number
\* is not the order number of any record whose note contains 'CANC'; each has
\* TIPO_MOV = 'VENDA'.
C16_SaleRule ==
    ClassifiedDone
        => LET notes == Notes
               sales == SaleRecords(notes, BatchCancelled(notes))
           IN  /\ Len(vendas) = Cardinality(sales)
               /\ \A k \in DOMAIN vendas :
                     /\ RowOf(vendas[k], Kth(sales, k), notes)
                     /\ vendas[k].TIPO_MOV = "VENDA"

\* C16 witness: a withdrawal of a cancelled order, the note that cancels it, a
\* withdrawal of another order: the sale set holds the last one only
C16_Witness ==
    /\ ppc = "classified"
    /\ Len(batch) = 3
    /\ batch[1].HISTORICO = "RETIRADA" /\ batch[1].NUMERO_PEDIDO = "1"
    /\ batch[2].HISTORICO = "CANC. RETIRADA" /\ batch[2].NUMERO_PEDIDO = "1"
    /\ batch[3].HISTORICO = "RETIRADA" /\ batch[3].NUMERO_PEDIDO = "2"
    /\ Len(vendas) = 1
    /\ vendas[1].NUMERO_PEDIDO = "2"
    /\ vendas[1].TIPO_MOV = "VENDA"

\* C17: the return set holds exactly the records whose note contains
\* 'DEVOLUÇÃO' and not 'CANC' while their order number is not cancelled, each
\* with TIPO_MOV = 'DEVOLUCAO'; the moved quantity of a sale is its QTDE_SAIDA,
\* that of a return its QTDE_ENTRADA.
C17_ReturnRule ==
    ClassifiedDone
        => LET notes == Notes
               cancelled == BatchCancelled(notes)
               returns == ReturnRecords(notes, cancelled)
               sales == SaleRecords(notes, cancelled)
           IN  /\ Len(devolucoes) = Cardinality(returns)
               /\ \A k \in DOMAIN devolucoes :
                     /\ RowOf(devolucoes[k], Kth(returns, k), notes)
                     /\ devolucoes[k].TIPO_MOV = "DEVOLUCAO"
                     /\ devolucoes[k].QTD_MOV = batch[Kth(returns, k)].QTDE_ENTRADA
               /\ Len(vendas) = Cardinality(sales)
               /\ \A k \in DOMAIN vendas :
                     vendas[k].QTD_MOV = batch[Kth(sales, k)].QTDE_SAIDA

\* C17 witness: a return of order "1", a return of order "2" and the note that
\* cancels order "2", and a counter sale of two pieces
C17_Witness ==
    /\ ppc = "classified"
    /\ Len(batch) = 3
    /\ batch[1].HISTORICO = "DEVOLU^C~AO" /\ batch[1].NUMERO_PEDIDO = "1"
    /\ batch[2].HISTORICO = "CANC. RETIRADA" /\ batch[2].NUMERO_PEDIDO = "2"
    /\ batch[3].HISTORICO = "Venda PDV" /\ batch[3].QTDE_SAIDA = 2
    /\ Len(devolucoes) = 1
    /\ devolucoes[1].QTD_MOV = 3
    /\ devolucoes[1].TIPO_MOV = "DEVOLUCAO"
    /\ Len(vendas) = 1
    /\ vendas[1].QTD_MOV = 2

\* a grade code that is absent, empty or made of blanks
Blank(g) == g = NULL \/ \A j \in 1..Len(g) : SubSeq(g, j, j) = " "

GroupedDone == ppc \in {"grouped", "enriched"}

\* the classified records of the batch with composite key k
GroupOf(k) == SelectSeq(vendas \o devolucoes, LAMBDA r : key_cols(r) = k)

\* the lines of df_consolidado with composite key k
LinesOf(k) == SelectSeq(consolidado, LAMBDA l : key_cols(l) = k)

\* the line of key k sums its group and describes its first record
LineOfGroup(k) ==
    /\ Len(LinesOf(k)) = 1
    /\ LinesOf(k)[1].QTD_SAIDA = SumSeq([j \in DOMAIN GroupOf(k) |-> GroupOf(k)[j].QTD_MOV])
    /\ LinesOf(k)[1].CODIGO_PRODUTO = GroupOf(k)[1].CODIGO_PRODUTO

\* C19: grouping gives one line per distinct (COD_GRADE, DATA_MOVIMENTO,
\* NOME_USUARIO, TIPO_MOV) among the classified records, with the sum of the
\* moved quantities of the group and the descriptive fields of its first
\* record; there are at most as many lines as classified records and every
\* line has a contributing record.
C19_Grouping ==
    GroupedDone
        => /\ \A k \in {key_cols(r) : r \in Range(vendas \o devolucoes)} : LineOfGroup(k)
           /\ Len(consolidado) <= Len(vendas \o devolucoes)
           /\ \A i \in DOMAIN consolidado : Len(GroupOf(key_cols(consolidado[i]))) > 0

\* the part of C19 that holds: the same for the keys without a null column
GroupingOfFullKeys ==
    GroupedDone
        => /\ \A k \in {key_cols(r) : r \in Range(vendas \o devolucoes)} :
                 (\A c \in 1..4 : k[c] # NULL) => LineOfGroup(k)
           /\ Len(consolidado) <= Len(vendas \o devolucoes)
           /\ \A i \in DOMAIN consolidado : Len(GroupOf(key_cols(consolidado[i]))) > 0

\* the products of the loaded PRODUTOS table whose REFERENCIA is the product
\* code of an aggregated line
ProductsOf(c) ==
    IF ref_loaded["PRODUTOS"].none THEN {}
    ELSE {k \in DOMAIN ref_loaded["PRODUTOS"].rows :
            astype_str(ref_loaded["PRODUTOS"].rows[k].REFERENCIA)
                = astype_str(c.CODIGO_PRODUTO)}

\* the enriched lines that carry the key and the quantity of an aggregated line
EnrichedOf(c) ==
    {j \in DOMAIN linhas :
        /\ linhas[j].COD_GRADE = c.COD_GRADE
        /\ linhas[j].DATA_MOVIMENTO = c.DATA_MOVIMENTO
        /\ linhas[j].NOME_USUARIO = c.NOME_USUARIO
        /\ linhas[j].TIPO_MOV = c.TIPO_MOV
        /\ linhas[j].QTD_SAIDA = c.QTD_SAIDA}

\* an enriched line without product data: null prices and names, zero metrics
NoProductData(l) ==
    /\ l.PRECO_CUSTO = NONE /\ l.PRECO_VENDA = NONE
    /\ l.GRUPO = NULL /\ l.MARCA = NULL /\ l.SUBGRUPO = NULL
    /\ l.MKP = 0 /\ l.FATURAMENTO = 0 /\ l.CUSTO_TOTAL = 0
    /\ l.LUCRO_BRUTO = 0 /\ l.MARGEM_BRUTA = 0

\* C20: enrichment never drops an aggregated line: there are at least as many
\* lines after it as before, every aggregated line is still there with its key
\* and its quantity, and a line whose product has no reference data is there
\* exactly once, with null prices and names and zero metrics.
C20_EnrichmentKeepsLines ==
    ppc = "enriched" =>
        /\ Len(linhas) >= Len(consolidado)
        /\ \A i \in DOMAIN consolidado :
              LET c == consolidado[i]
              IN  /\ EnrichedOf(c) # {}
                  /\ ProductsOf(c) = {} =>
                        /\ Cardinality(EnrichedOf(c)) = 1
                        /\ \A j \in EnrichedOf(c) : NoProductData(linhas[j])

\* PRODUTOS is loaded, one aggregated line matches two products and another
\* matches none
C20_Witness ==
    /\ ppc = "enriched"
    /\ ~ref_loaded["PRODUTOS"].none
    /\ Len(linhas) > Len(consolidado)
    /\ \E i \in DOMAIN consolidado :
          /\ ProductsOf(consolidado[i]) = {}
          /\ \E j \in EnrichedOf(consolidado[i]) : NoProductData(linhas[j])

EnrichedDone == ppc = "enriched"

\* a price or a total that is zero, negative or missing
NotPositive(v) == v = NONE \/ v <= 0

\* C21: for every aggregated line MKP is exactly 0 when the cost price is zero,
\* negative or missing, and MARGEM_BRUTA is exactly 0 when the total cost is
\* zero, negative or missing (a missing cost price gives a total cost of 0);
\* neither is NaN in those cases.
C21_ZeroDivisor ==
    EnrichedDone =>
        \A j \in DOMAIN linhas :
            /\ NotPositive(linhas[j].PRECO_CUSTO) => linhas[j].MKP = 0
            /\ (NotPositive(linhas[j].CUSTO_TOTAL) \/ linhas[j].PRECO_CUSTO = NONE)
                  => linhas[j].MARGEM_BRUTA = 0

\* the enriched lines hold a missing, a zero and a negative cost price, each
\* with a positive sell price, and a line with a positive cost price whose
\* ratios are not 0
C21_Witness ==
    /\ EnrichedDone
    /\ \A cust \in {NONE, 0, -1} :
          \E j \in DOMAIN linhas :
              /\ linhas[j].PRECO_CUSTO = cust /\ linhas[j].PRECO_VENDA = 5
              /\ linhas[j].MKP = 0 /\ linhas[j].MARGEM_BRUTA = 0
    /\ \E j \in DOMAIN linhas :
          /\ linhas[j].CUSTO_TOTAL < 0 /\ linhas[j].FATURAMENTO > 0
    /\ \E j \in DOMAIN linhas :
          /\ linhas[j].PRECO_CUSTO = 2 /\ linhas[j].MKP = 250
          /\ linhas[j].MARGEM_BRUTA = 250

\* the metrics of a line as the rule gives them: computed when both inputs
\* are present, 0 otherwise
MetricsByRule(l) ==
    LET cust == l.PRECO_CUSTO
        vend == l.PRECO_VENDA
        fat == IF vend # NONE THEN l.QTD_SAIDA * vend ELSE 0
        custo == IF cust # NONE THEN l.QTD_SAIDA * cust ELSE 0
    IN  [MKP |-> IF cust # NONE /\ vend # NONE /\ cust > 0
                 THEN Round2(vend, cust) ELSE 0,
         FATURAMENTO |-> fat,
         CUSTO_TOTAL |-> custo,
         LUCRO_BRUTO |-> fat - custo,
         MARGEM_BRUTA |-> IF custo > 0 THEN Round2(fat, custo) ELSE 0]

MetricNames == {"MKP", "FATURAMENTO", "CUSTO_TOTAL", "LUCRO_BRUTO", "MARGEM_BRUTA"}

\* C22: each derived metric of a line (MKP, FATURAMENTO, CUSTO_TOTAL,
\* LUCRO_BRUTO, MARGEM_BRUTA) is computed from its inputs when both are
\* present and is 0 otherwise; a line with a positive cost price and a missing
\* sell price has MKP = 0, FATURAMENTO = 0 and LUCRO_BRUTO = FATURAMENTO -
\* CUSTO_TOTAL.
C22_MetricsDefault ==
    EnrichedDone =>
        \A j \in DOMAIN linhas :
            \A m \in MetricNames : linhas[j][m] = MetricsByRule(linhas[j])[m]

\* the rule holds for every metric of every line but the MKP of a line with
\* a positive cost price and a missing sell price
MetricsButMissingSellPrice ==
    EnrichedDone =>
        \A j \in DOMAIN linhas :
            \A m \in MetricNames :
                \/ linhas[j][m] = MetricsByRule(linhas[j])[m]
                \/ /\ m = "MKP"
                   /\ linhas[j].PRECO_CUSTO # NONE /\ linhas[j].PRECO_CUSTO > 0
                   /\ linhas[j].PRECO_VENDA = NONE
                   /\ linhas[j].MKP = NONE

\* the step of a run that reaches step 4 (the reference tables)
LoadsRefs == pc = "idle" /\ pc' = "to_csv"

CacheHit ==
    /\ pc = "to_csv"
    /\ is_incremental
    /\ refs.queried = {}
    /\ \A t \in RefTables : ~refs.loaded[t].none

\* the table read is over, without Ctrl-C
ReadOver == rpc \in {"returned", "raised"}

\* what every table read does: the charsets in the order of CHARSETS, one
\* attempt each, up to the first that succeeds, whose frame is returned
FirstSuccess ==
    ReadOver =>
        /\ tried = SubSeq(CHARSETS, 1, Len(tried))
        /\ \A i \in 1..(Len(tried) - 1) : tried[i] \in cs_fail
        /\ rpc = "returned" <=> tried[Len(tried)] \notin cs_fail
        /\ rpc = "returned" =>
              /\ read_result.kind = "data"
              /\ read_result.charset = tried[Len(tried)]
              /\ read_result.rows = kardex
        /\ rpc = "raised" =>
              /\ read_result.kind = "raised"
              /\ Len(tried) = Len(CHARSETS)

\* C24: a table read tries the charsets in the order of CHARSETS, one attempt
\* each, and returns the result of the first attempt that succeeds without
\* trying later ones; when every attempt fails it raises the error of the last
\* attempt; it never returns data of a failed attempt.
C24_CharsetFallback ==
    /\ FirstSuccess
    /\ rpc = "raised" => read_result.error = ErrorOf(CHARSETS[Len(CHARSETS)])

\* exec_sql raises the error of the last attempt
ExecSqlRaisesLast ==
    (rpc = "raised" /\ reader = "exec_sql")
        => read_result.error = ErrorOf(CHARSETS[Len(CHARSETS)])

\* the source record of a classified record
SourceOf(c) == [f \in DOMAIN c \ {"TIPO_MOV", "QTD_MOV"} |-> c[f]]

\* the source records that are both in the sale set and in the return set
InBothSets ==
    {SourceOf(vendas[i]) : i \in DOMAIN vendas}
        \cap {SourceOf(devolucoes[j]) : j \in DOMAIN devolucoes}

\* C25: the classifier partitions the records it keeps: no record of the batch
\* is both in the sale set and in the return set, so no movement gives quantity
\* to a VENDA line and to a DEVOLUCAO line, a record whose note holds both a
\* sale marker and the return marker included.
C25_Partition ==
    ClassifiedDone => InBothSets = {}

\* only a record whose note holds both a sale marker and the return marker
\* is in both sets
OnlyDoubleMarkerInBoth ==
    ClassifiedDone =>
        \A r \in InBothSets :
            /\ Contains(r.HISTORICO, "DEVOLU^C~AO")
            /\ Contains(r.HISTORICO, "VENDA PDV") \/ Contains(r.HISTORICO, "RETIRADA")

\* every row given to append_dedup so far, as the file holds a row: in call
\* order, the date as YYYY-MM-DD
SuppliedRows == fact_to_csv(NormalizeData(Flatten(supplied)))

\* the last row supplied for a key
LastSupplied(k) ==
    LET n == CHOOSE i \in DOMAIN SuppliedRows :
                /\ DedupKey(SuppliedRows[i]) = k
                /\ \A j \in DOMAIN SuppliedRows :
                      j > i => DedupKey(SuppliedRows[j]) # k
    IN  SuppliedRows[n]

\* C26: after any sequence of append_dedup calls on a path, starting without
\* the file, the file holds at most one row per value of key_cols, the row of
\* a key is the last one of the most recent call that supplied the key, and no
\* other row is in the file; this from the first call on, when the file does
\* not exist yet and df repeats a key.
C26_AppendDedup ==
    fact_file.exists =>
        /\ \A i, j \in DOMAIN fact_file.rows :
              i # j => DedupKey(fact_file.rows[i]) # DedupKey(fact_file.rows[j])
        /\ \A i \in DOMAIN fact_file.rows :
              /\ \E n \in DOMAIN SuppliedRows :
                    DedupKey(SuppliedRows[n]) = DedupKey(fact_file.rows[i])
              /\ fact_file.rows[i] = LastSupplied(DedupKey(fact_file.rows[i]))
        /\ \A n \in DOMAIN SuppliedRows :
              \E i \in DOMAIN fact_file.rows :
                  DedupKey(fact_file.rows[i]) = DedupKey(SuppliedRows[n])

\* no key is repeated in the first call and every seller has a name
PlainCalls ==
    /\ Len(supplied) > 0
    /\ \A i, j \in DOMAIN supplied[1] :
          i # j => DedupKey(NormalizeData(supplied[1])[i])
                      # DedupKey(NormalizeData(supplied[1])[j])
    /\ \A n \in DOMAIN SuppliedRows : SuppliedRows[n].Vendedor # ""

\* for such calls the file is as C26 says
AppendDedupOfPlainCalls ==
    PlainCalls => C26_AppendDedup

\* the composite keys of this run's lines, as the file holds them
NewKeys == {key_cols(to_csv_row(r)) : r \in Range(df_new.rows)}

\* the rows of a file or frame hold the key and the quantity of a CSV row
Holds(rows, old) ==
    \E i \in DOMAIN rows :
        /\ key_cols(to_csv_row(rows[i])) = key_cols(old)
        /\ rows[i].QTD_SAIDA = old.QTD_SAIDA

\* C27: after an incremental run that computed lines and ended well, every
\* line SAIDA_GRADE.csv held before the run whose composite key is not among
\* the new lines is still in the file with its key and quantity, also when
\* the CSV could not be read at the merge step.
C27_ExistingLinesKept ==
    (Ended /\ exit_code = 0 /\ is_incremental /\ ~df_new.none)
        => \A j \in DOMAIN csv0.rows :
              key_cols(csv0.rows[j]) \notin NewKeys => Holds(csv.rows, csv0.rows[j])

\* when load_existing_data could read the CSV, the frame the run is about to
\* save holds every such line
ReadableLinesKept ==
    (pc = "to_csv" /\ is_incremental /\ ~df_existing.none)
        => \A j \in DOMAIN csv.rows :
              key_cols(csv.rows[j]) \notin NewKeys => Holds(df_final.rows, csv.rows[j])

\* the run was given --days and not --full, and is about to save its lines
DaysRun == pc = "to_csv" /\ ~args.full /\ args.days # NONE

\* what a --days run does: no merge, and the lines of the movements dated in
\* the last args.days days
DaysLoad ==
    /\ ~is_incremental
    /\ df_existing.none
    /\ df_final = df_new
    /\ df_final.rows =
          NewLines(KardexSince(Day(inicio - args.days * HoursPerDay)), refs.loaded)

\* a run that was not incremental and ended well leaves its lines, all of
\* them and nothing else, in the file and a run state of mode 'full'
FullSaved ==
    (Ended /\ exit_code = 0 /\ ~is_incremental /\ ~df_final.none)
        => /\ CsvComplete
           /\ get_last_run_info(last_run_file).mode = "full"

\* C28: a run with --days N and without --full is never incremental and merges
\* nothing: once it has ended well SAIDA_GRADE.csv holds the lines aggregated
\* from the movements of the last N days and no other (older lines it held are
\* gone), and the run state has mode 'full'.
C28_DaysRun ==
    /\ DaysRun => DaysLoad
    /\ FullSaved

\* the same for N of 1 or more
DaysRunOfPositiveN ==
    /\ (DaysRun /\ args.days > 0) => DaysLoad
    /\ FullSaved

\* the classified records, in the order of df_saidas
Saidas == vendas \o devolucoes

\* the sum of QTD_MOV over the classified records
ClassifiedQty == SumSeq([i \in DOMAIN Saidas |-> Saidas[i].QTD_MOV])

\* the sum of QTD_SAIDA over the aggregated lines
AggregatedQty == SumSeq([i \in DOMAIN consolidado |-> consolidado[i].QTD_SAIDA])

\* C29: grouping conserves quantity: every classified record contributes to
\* exactly one aggregated line and the sum of QTD_SAIDA over the lines is the
\* sum of QTD_MOV over the classified records, records with a null username,
\* date or other key field included.
C29_QuantityConserved ==
    GroupedDone =>
        /\ AggregatedQty = ClassifiedQty
        /\ \A i \in DOMAIN Saidas :
              Cardinality({j \in DOMAIN consolidado :
                  key_cols(consolidado[j]) = key_cols(Saidas[i])}) = 1

\* quantity is conserved when no classified record has a null key field
ConservedOfFullKeys ==
    (GroupedDone /\ \A i \in DOMAIN Saidas :
                       \A n \in 1..4 : key_cols(Saidas[i])[n] # NULL)
        => /\ AggregatedQty = ClassifiedQty
           /\ \A i \in DOMAIN Saidas :
                 Cardinality({j \in DOMAIN consolidado :
                     key_cols(consolidado[j]) = key_cols(Saidas[i])}) = 1

\* the quantity of all the sales and returns of KARDEX that have a composite
\* key
RECURSIVE MovedQty(_, _)
MovedQty(saidas, k) ==
    IF Len(saidas) = 0 THEN 0
    ELSE (IF key_cols(Head(saidas)) = k THEN Head(saidas).QTD_MOV ELSE 0)
            + MovedQty(Tail(saidas), k)

\* the sales and returns among all the rows of KARDEX, of any date
AllSaidas == df_saidas(Prepared(KardexSince(0)))

\* an incremental or --days run is about to save its lines
WindowRun == pc = "to_csv" /\ (is_incremental \/ args.days # NONE)

====
